---- MODULE Spec2Model ----
(***************************************************************************)
(* Model of GetShopListByRutenService                                      *)
(* (src/libs/ruten-apis/src/services/getShopListByRutenService.ts).        *)
(*                                                                         *)
(* JavaScript strings that the code splits, rewrites or interpolates are   *)
(* sequences of tokens: a product name "A+UR" is <<"A","+","U","R">>, a    *)
(* carrier key "FAMI_COD" is <<"FAMI","_COD">>.  JavaScript objects whose  *)
(* key order the code reads (shipPrices, freeShip, deliver_way,            *)
(* discount_conditions) are sequences of [k, v] pairs in insertion order.  *)
(***************************************************************************)
EXTENDS Integers, Sequences, FiniteSets, TLC

VARIABLES
  ctorArg,              \* the shoppingList argument given to the constructor
  constructed,          \* whether the constructor has run
  shoppingList,         \* this.shoppingList
  shoppingListExtended, \* this.shoppingListExtended
  shopList,             \* this.shopList
  errorHandler,         \* this.errorHandler
  pc,                   \* position of the getShopList call in flight
  loc,                  \* local variables of the call in flight
  answers,              \* how each remote / data-store request has answered so far
  adverseUsed,          \* number of adverse (failing or empty) answers given so far
  changed,              \* the remote side changed since the previous call started
  log,                  \* requests issued by the call in flight, in issue order
  results,              \* one record per finished getShopList call
  das,                  \* the data access facade: DataAccessService and ModelRegistry
  pure                  \* input and result of a method that is checked on its own

\* the variables of the aggregator service
aggVars == <<ctorArg, constructed, shoppingList, shoppingListExtended, shopList,
             errorHandler, pc, loc, answers, adverseUsed, changed, log, results>>

vars == <<ctorArg, constructed, shoppingList, shoppingListExtended, shopList,
          errorHandler, pc, loc, answers, adverseUsed, changed, log, results, das,
          pure>>

(***************************************************************************)
(* Bounds of the model.                                                    *)
(***************************************************************************)
\* getShopList calls made on one service instance
MaxRuns == 2
\* adverse answers (a failure or an empty payload) the remote side gives in one behaviour
MaxAdverse == 2
\* largest count of a requested item (constructor inputs)
MaxCount == 5
\* longest constructor input checked by SpecCtor
MaxCtorLen == 2
\* find calls made on one DataAccessService
MaxFinds == 2
\* getInstance calls, and getModel calls, made on the registry directly
MaxDirect == 1
\* connection attempts that fail
MaxConnectFails == 1
\* most shipping methods a listing declares (shop creation checked on its own)
MaxWays == 2
\* longest listing batch given to the listing filter
MaxListings == 12

(***************************************************************************)
(* Program constants.                                                      *)
(***************************************************************************)
CountLimit == 3
SliceLimit == 10
Sentinel == 99999

(***************************************************************************)
(* Generic helpers.                                                        *)
(***************************************************************************)
Range(s) == {s[i] : i \in DOMAIN s}

Min(a, b) == IF a <= b THEN a ELSE b

\* index of the first occurrence of a token in a string, 0 when absent
RECURSIVE IndexOfFrom(_, _, _)
IndexOfFrom(s, tok, i) ==
  IF i > Len(s) THEN 0
  ELSE IF s[i] = tok THEN i
  ELSE IndexOfFrom(s, tok, i + 1)

\* String.prototype.split on a one-token separator
RECURSIVE SplitFrom(_, _, _, _)
SplitFrom(s, sep, i, cur) ==
  IF i > Len(s) THEN <<cur>>
  ELSE IF s[i] = sep THEN <<cur>> \o SplitFrom(s, sep, i + 1, <<>>)
  ELSE SplitFrom(s, sep, i + 1, Append(cur, s[i]))

Split(s, sep) == SplitFrom(s, sep, 1, <<>>)

\* String.prototype.replace(pattern, by) with a string pattern: the first
\* occurrence of the token only
ReplaceFirst(s, tok, by) ==
  LET i == IndexOfFrom(s, tok, 1)
  IN  IF i = 0 THEN s
      ELSE SubSeq(s, 1, i - 1) \o by \o SubSeq(s, i + 1, Len(s))

\* a JavaScript object as a sequence of [k, v] pairs in insertion order
ObjKeys(o) == [i \in DOMAIN o |-> o[i].k]

ObjHas(o, key) == \E i \in DOMAIN o : o[i].k = key

ObjSet(o, key, val) ==
  IF ObjHas(o, key)
  THEN [i \in DOMAIN o |-> IF o[i].k = key THEN [k |-> key, v |-> val] ELSE o[i]]
  ELSE Append(o, [k |-> key, v |-> val])

\* a mapping keyed by product name (only membership of its keys is read)
MapSet(m, key, val) == [x \in DOMAIN m \cup {key} |-> IF x = key THEN val ELSE m[x]]

EmptyMap == [x \in {} |-> 0]

(***************************************************************************)
(* The remote marketplace and the card store, as they answer when a        *)
(* request succeeds.                                                       *)
(***************************************************************************)
P1 == <<"A", "+", "U", "R">>
P2 == <<"B", "+", "S", "R">>
P3 == <<"C", "+", "U", "R">>
Products == {P1, P2, P3}

S1 == <<"s", "1">>
S2 == <<"s", "2">>
Shops == {S1, S2}

SEVEN == <<"SEVEN">>
FAMILY == <<"FAMI", "LY">>
HILIFE == <<"HILIFE">>
POST == <<"POST">>

CardStore ==
  << [id |-> <<"A">>, name |-> "cardA", number |-> "n1",
      rarity |-> << <<"U", "R">>, <<"S", "R">> >>],
     [id |-> <<"B">>, name |-> "cardB", number |-> "n2",
      rarity |-> << <<"S", "R">> >>],
     [id |-> <<"C">>, name |-> "cardC", number |-> "n3",
      rarity |-> << <<"U", "R">> >>],
     [id |-> <<"D">>, name |-> "cardD", number |-> "n4",
      rarity |-> << <<"U", "R">>, <<"S", "R">>, <<"N">> >>] >>

Pair(key, val) == [k |-> key, v |-> val]

\* listing titles are sets of words
Listings ==
  << [id |-> "L0", name |-> {<<"A">>, <<"U", "R">>, <<"FAN">>}, goods_price |-> 5,
      num |-> 9, user |-> S2, deliver_way |-> <<Pair(SEVEN, 60)>>],
     [id |-> "L1", name |-> {<<"A">>, <<"U", "R">>}, goods_price |-> 10,
      num |-> 2, user |-> S1,
      deliver_way |-> <<Pair(POST, 80), Pair(<<"SEVEN", "_COD">>, 60)>>],
     [id |-> "L2", name |-> {<<"A">>, <<"U", "R">>}, goods_price |-> 12,
      num |-> 1, user |-> S1, deliver_way |-> <<Pair(<<"FAMI">>, 50)>>],
     [id |-> "L3", name |-> {<<"A">>, <<"U", "R">>}, goods_price |-> 13,
      num |-> 5, user |-> S2, deliver_way |-> <<Pair(POST, 80)>>],
     [id |-> "L4", name |-> {<<"B">>, <<"S", "R">>}, goods_price |-> 20,
      num |-> 1, user |-> S2,
      deliver_way |-> <<Pair(<<"HILIFE", "_COD">>, 45), Pair(SEVEN, 60)>>],
     [id |-> "X2", name |-> {<<"B">>, <<"S", "R">>}, goods_price |-> 25,
      num |-> 3, user |-> S1, deliver_way |-> <<Pair(FAMILY, 55)>>],
     [id |-> "X3", name |-> {<<"C">>, <<"U", "R">>}, goods_price |-> 30,
      num |-> 4, user |-> S2, deliver_way |-> <<Pair(SEVEN, 60)>>],
     [id |-> "X4", name |-> {<<"C">>, <<"U", "R">>}, goods_price |-> 31,
      num |-> 1, user |-> S1, deliver_way |-> <<Pair(SEVEN, 60)>>] >>

\* product search: the ids of the listings found for a query, cheapest first
SearchRows(q) ==
  IF q = P1 THEN <<"L0", "L1", "L2", "L3">>
  ELSE IF q = P2 THEN <<"L4">>
  ELSE <<>>

\* product detail batch: the records of the listings asked for
DetailData(ids) == SelectSeq(Listings, LAMBDA l : l.id \in Range(ids))

\* shop info: the canonical seller id of a shop
UserId(shop) == IF shop = S1 THEN <<"u", "1">> ELSE <<"u", "2">>

\* a shop's own product search: ids of its listings for a query, cheapest
\* first; the top row of one search has no id
ShopRows(shop, q) ==
  IF shop = S1 /\ q = P1 THEN <<"L1", "L2">>
  ELSE IF shop = S1 /\ q = P2 THEN <<"X2">>
  ELSE IF shop = S1 /\ q = P3 THEN <<"X4">>
  ELSE IF shop = S2 /\ q = P1 THEN <<"L3">>
  ELSE IF shop = S2 /\ q = P2 THEN <<"L4">>
  ELSE IF shop = S2 /\ q = P3 THEN <<"", "X3">>
  ELSE <<>>

\* shipping info: discount_conditions, name -> arrival_amount
DiscountConditions(shop) ==
  IF shop = S1
  THEN <<Pair(SEVEN, 500), Pair(POST, 300), Pair(FAMILY, 400)>>
  ELSE <<Pair(POST, 300)>>

(***************************************************************************)
(* Title heuristics of ../utils, used by filterProdDetail as filter        *)
(* predicates (a listing is kept when the predicate is true).              *)
(***************************************************************************)
containsAllKeywords(name, productName) ==
  \A seg \in Range(Split(productName, "+")) : seg \in name

isIllegalProductChar(name) == <<"#">> \notin name

isFanMode(name) == <<"FAN">> \notin name

isUnopenedPackProduct(name) == <<"PACK">> \notin name

notContainsAnotherRarity(name, rar, nRarities) ==
  ~(nRarities > 1 /\ rar \in name)

(***************************************************************************)
(* Pure functions of the service.                                          *)
(***************************************************************************)
\* variant: the requested counts are kept as given
ConstructorUnclamped(list) ==
  [i \in DOMAIN list |->
     [productName |-> list[i].productName, count |-> list[i].count]]

\* constructor: every count clamped to 3
Constructor(list) ==
  [i \in DOMAIN list |->
     [productName |-> list[i].productName, count |-> Min(list[i].count, CountLimit)]]

\* /(SEVEN|FAMI|HILIFE)/.test(way)
IsStoreWay(way) == \E i \in DOMAIN way : way[i] \in {"SEVEN", "FAMI", "HILIFE"}

\* way.replace('_COD', '').replace('FAMI', 'FAMILY')
WayKey(way) == ReplaceFirst(ReplaceFirst(way, "_COD", <<>>), "FAMI", <<"FAMI", "LY">>)

RECURSIVE ExtractFrom(_, _, _)
ExtractFrom(deliverWay, i, shipPrices) ==
  IF i > Len(deliverWay) THEN shipPrices
  ELSE IF IsStoreWay(deliverWay[i].k)
       THEN ExtractFrom(deliverWay, i + 1,
                        ObjSet(shipPrices, WayKey(deliverWay[i].k), deliverWay[i].v))
       ELSE ExtractFrom(deliverWay, i + 1, shipPrices)

extractShipPrices(deliverWay) == ExtractFrom(deliverWay, 1, <<>>)

\* { [Object.keys(shipPrices)[0]]: 99999 }: an absent first key is the
\* property name "undefined"
setDefaultFreeShip(list, shopIdx) ==
  LET keys == ObjKeys(list[shopIdx].shipPrices)
  IN  <<Pair(IF Len(keys) = 0 THEN <<"undefined">> ELSE keys[1], Sentinel)>>

\* /SEVEN|FAMILY|HILIFE/.test(freeShipType)
IsFreeShipType(t) ==
  \E i \in DOMAIN t :
    \/ t[i] \in {"SEVEN", "HILIFE"}
    \/ t[i] = "FAMI" /\ i < Len(t) /\ t[i + 1] = "LY"

RECURSIVE FreeShipFrom(_, _, _)
FreeShipFrom(conditions, i, freeShip) ==
  IF i > Len(conditions) THEN freeShip
  ELSE IF IsFreeShipType(conditions[i].k)
       THEN FreeShipFrom(conditions, i + 1,
                         ObjSet(freeShip, conditions[i].k, conditions[i].v))
       ELSE FreeShipFrom(conditions, i + 1, freeShip)

\* Array.prototype.findIndex(x => x.id === id), 1-based; 0 stands for -1
RECURSIVE ShopIndexFrom(_, _, _)
ShopIndexFrom(list, id, i) ==
  IF i > Len(list) THEN 0
  ELSE IF list[i].id = id THEN i
  ELSE ShopIndexFrom(list, id, i + 1)

FindShopIndex(list, id) == ShopIndexFrom(list, id, 1)

Entry(id, price, qtl) == [id |-> id, price |-> price, qtl |-> qtl]

\* variant: the lookup by shop id never finds the shop
addOrUpdateShopAlwaysNew(list, prod, prodDetail) ==
  [idx |-> 0,
   shop |-> [id |-> prodDetail.shopId,
             products |-> MapSet(EmptyMap, prod.productName,
                                 Entry(prodDetail.id, prodDetail.price, prodDetail.qtl)),
             shipPrices |-> extractShipPrices(prodDetail.deliver_way),
             freeShip |-> <<>>]]

addOrUpdateShop(list, prod, prodDetail) ==
  LET idx == FindShopIndex(list, prodDetail.shopId)
      entry == Entry(prodDetail.id, prodDetail.price, prodDetail.qtl)
  IN  IF idx = 0
      THEN [idx |-> idx,
            shop |-> [id |-> prodDetail.shopId,
                      products |-> MapSet(EmptyMap, prod.productName, entry),
                      shipPrices |-> extractShipPrices(prodDetail.deliver_way),
                      freeShip |-> <<>>]]
      ELSE [idx |-> idx,
            shop |-> [list[idx] EXCEPT
                        !.products = MapSet(@, prod.productName, entry)]]

\* this.shoppingListExtended.find(x => x.productName === productName)?.rarities;
\* an absent entry gives <<>>, which the filter treats like undefined
RaritiesOf(ext, productName) ==
  LET hits == SelectSeq(ext, LAMBDA x : x.productName = productName)
  IN  IF Len(hits) = 0 THEN <<>> ELSE hits[1].rarities

\* productName.split('+')[1]; <<>> stands for undefined and for ''
NowRarity(productName) ==
  LET segs == Split(productName, "+")
  IN  IF Len(segs) >= 2 THEN segs[2] ELSE <<>>

\* rarities.filter(x => x !== nowRarity)
OtherRarities(rarities, nowRarity) == SelectSeq(rarities, LAMBDA x : x # nowRarity)

\* variant: only the first of the other rarities is filtered out
RarityFilterFirstOnly(list, others, i, n) ==
  IF Len(others) = 0 THEN list
  ELSE SelectSeq(list, LAMBDA x : notContainsAnotherRarity(x.name, others[1], n))

RECURSIVE RarityFilter(_, _, _, _)
RarityFilter(list, others, i, n) ==
  IF i > Len(others) THEN list
  ELSE RarityFilter(
         SelectSeq(list, LAMBDA x : notContainsAnotherRarity(x.name, others[i], n)),
         others, i + 1, n)

\* variant: the input is cut to its first 10 listings before it is filtered
filterProdDetailTruncatesFirst(data, productName, ext) ==
  LET cut == SubSeq(data, 1, Min(Len(data), SliceLimit))
      rarities == RaritiesOf(ext, productName)
      nowRarity == NowRarity(productName)
      kept == SelectSeq(cut, LAMBDA x :
                /\ containsAllKeywords(x.name, productName)
                /\ isIllegalProductChar(x.name)
                /\ isFanMode(x.name)
                /\ isUnopenedPackProduct(x.name))
      narrowed ==
        IF Len(rarities) > 0 /\ Len(nowRarity) > 0
        THEN RarityFilter(kept, OtherRarities(rarities, nowRarity), 1, Len(rarities))
        ELSE kept
  IN  [i \in DOMAIN narrowed |->
         [price |-> narrowed[i].goods_price, qtl |-> narrowed[i].num,
          id |-> narrowed[i].id, shopId |-> narrowed[i].user,
          deliver_way |-> narrowed[i].deliver_way]]

filterProdDetail(data, productName, ext) ==
  LET rarities == RaritiesOf(ext, productName)
      nowRarity == NowRarity(productName)
      kept == SelectSeq(data, LAMBDA x :
                /\ containsAllKeywords(x.name, productName)
                /\ isIllegalProductChar(x.name)
                /\ isFanMode(x.name)
                /\ isUnopenedPackProduct(x.name))
      narrowed ==
        IF Len(rarities) > 0 /\ Len(nowRarity) > 0
        THEN RarityFilter(kept, OtherRarities(rarities, nowRarity), 1, Len(rarities))
        ELSE kept
      mapped == [i \in DOMAIN narrowed |->
                   [price |-> narrowed[i].goods_price, qtl |-> narrowed[i].num,
                    id |-> narrowed[i].id, shopId |-> narrowed[i].user,
                    deliver_way |-> narrowed[i].deliver_way]]
  IN  SubSeq(mapped, 1, Min(Len(mapped), SliceLimit))

\* case folding of the 'i' regex option
Upper(ch) ==
  CASE ch = "u" -> "U" [] ch = "r" -> "R" [] ch = "s" -> "S" [] OTHER -> ch

UpperAll(s) == [i \in DOMAIN s |-> Upper(s[i])]

\* { $regex: pattern, $options: 'i' } on a stored string: the pattern occurs
\* somewhere in it, letter case aside
RegexMatchI(pattern, stored) ==
  \E i \in 0..(Len(stored) - Len(pattern)) :
    SubSeq(UpperAll(stored), i + 1, i + Len(pattern)) = UpperAll(pattern)

\* dataAccessService.find(CARDS, {id, rarity: {$elemMatch: {$regex, 'i'}}})
FindCards(card_id, rarity) ==
  SelectSeq(CardStore, LAMBDA c :
    /\ c.id = card_id
    /\ \E r \in Range(c.rarity) : RegexMatchI(rarity, r))

\* error records: an Error object or a plain string, with the interpolated values
Err(type, text, args) == [type |-> type, text |-> text, args |-> args]

(***************************************************************************)
(* Requests.  A request that has not been made yet may answer "ok" (the    *)
(* content above), "fail" (transport error, exception) or "none" (an empty *)
(* payload); the answer is kept, so that the same request answers the same *)
(* way until the remote side changes.                                      *)
(***************************************************************************)
ShopProducts == Shops \X Products

NoAnswers ==
  [cards      |-> [x \in Products |-> "unasked"],
   search     |-> [x \in Products |-> "unasked"],
   detail     |-> [x \in Products |-> "unasked"],
   shopInfo   |-> [x \in Shops |-> "unasked"],
   shopSearch |-> [x \in ShopProducts |-> "unasked"],
   shopDetail |-> [x \in ShopProducts |-> "unasked"],
   ship       |-> [x \in Shops |-> "unasked"]]

Adverse(ep) ==
  IF ep \in {"cards", "search", "shopSearch", "ship"} THEN {"fail", "none"}
  ELSE {"fail"}

Choices(ans, used, ep, arg) ==
  IF ans[ep][arg] # "unasked" THEN {ans[ep][arg]}
  ELSE {"ok"} \cup (IF used < MaxAdverse THEN Adverse(ep) ELSE {})

Remember(ans, ep, arg, a) ==
  IF a = "skip" THEN ans ELSE [ans EXCEPT ![ep][arg] = a]

Spent(ans, used, ep, arg, a) ==
  IF a \in {"fail", "none"} /\ ans[ep][arg] = "unasked" THEN used + 1 ELSE used

Req(ep, args) == [ep |-> ep, args |-> args]

(***************************************************************************)
(* Methods of the service, given the answers of the requests they make.    *)
(***************************************************************************)
Ok(value) == [ok |-> TRUE, value |-> value, error |-> Err("", "", <<>>)]

Throw(error) == [ok |-> FALSE, value |-> <<>>, error |-> error]

\* getProductRequestExtended's local list before the loop
shopListExtend(list) ==
  [i \in DOMAIN list |->
     [productName |-> list[i].productName,
      count |-> list[i].count,
      rarities |-> <<>>,
      card_id |-> Split(list[i].productName, "+")[1],
      card_name |-> "", card_number |-> ""]]

\* one iteration of getProductRequestExtended's loop
ResolveCard(a, prod) ==
  LET rarity == NowRarity(prod.productName)
      found == IF a = "ok" THEN FindCards(prod.card_id, rarity) ELSE <<>>
  IN  IF a = "fail" THEN Throw(Err("Error", "data access failed", <<>>))
      ELSE IF Len(found) = 0
      THEN Throw(Err("Error", "Card data not found for", <<prod.card_id, rarity>>))
      ELSE Ok([prod EXCEPT !.card_name = found[1].name,
                           !.card_number = found[1].number,
                           !.rarities = found[1].rarity])

\* variant: the failing item is dropped and resolution goes on with the next one
ResolveFailureSkipsItem(ext, p, eh, error) ==
  [abort |-> FALSE,
   ext |-> SubSeq(ext, 1, p - 1) \o SubSeq(ext, p + 1, Len(ext)),
   errorHandler |-> Append(eh, error)]

\* a throw inside getProductRequestExtended: nothing catches it there, and
\* getShopList's catch records it and returns []
ResolveFailure(ext, p, eh, error) ==
  [abort |-> TRUE, ext |-> ext, errorHandler |-> Append(eh, error)]

findProductList(a1, a2, prod, ext) ==
  LET rows == SearchRows(prod.productName)
  IN  IF a1 = "fail" \/ a2 = "fail"
      THEN Throw(Err("Error", "Error while getting product list for",
                     <<prod.productName>>))
      ELSE IF a1 = "none" \/ Len(rows) = 0 THEN Ok(<<>>)
      ELSE Ok(filterProdDetail(DetailData(rows), prod.productName, ext))

\* variant: the first failing item ends the loop over the items
StageBCatchBreaks(p, n, eh, error) ==
  [next |-> n + 1, errorHandler |-> Append(eh, error), rethrow |-> FALSE]

\* getShopList's catch around one item of Stage B
StageBCatch(p, n, eh, error) ==
  [next |-> p + 1, errorHandler |-> Append(eh, error), rethrow |-> FALSE]

getShopId(a, shopName) ==
  IF a = "fail"
  THEN Throw(Err("Error", "Error while getting product list for", <<shopName>>))
  ELSE Ok(UserId(shopName))

\* variant: getShopId's error is not caught
ShopIdUncaught(idx, n, eh, error) ==
  [next |-> idx + 1, errorHandler |-> eh, rethrow |-> TRUE]

\* findShopHasAnotherProduct's catch around getShopId
ShopIdCatch(idx, n, eh, error) ==
  [next |-> idx + 1, errorHandler |-> Append(eh, error), rethrow |-> FALSE]

getShopOtherProductInfo(a1, a2, shopName, shopId, targetProduct) ==
  LET rows == IF a1 = "ok" THEN ShopRows(shopName, targetProduct) ELSE <<>>
      data == IF Len(rows) > 0 THEN DetailData(<<rows[1]>>) ELSE <<>>
      error == Err("Error", "Error while getting other product info for",
                   <<shopId, targetProduct>>)
  IN  IF a1 = "fail" \/ a2 = "fail" THEN Throw(error)
      ELSE IF Len(rows) = 0 \/ rows[1] = "" THEN Ok(Entry("", 0, 0))
      ELSE IF Len(data) = 0 THEN Throw(error)
      ELSE Ok(Entry(data[1].id, data[1].goods_price, data[1].num))

\* variant: the delay is taken only after a seller-id lookup that succeeded
ShopLookupRequestsDelayOnSuccess(shopName, ok) ==
  <<Req("shopInfo", <<shopName>>)>> \o (IF ok THEN <<Req("delay", <<>>)>> ELSE <<>>)

\* what one iteration of findShopHasAnotherProduct's loop does first: the
\* delay, then the seller-id request, whether or not that request succeeds
ShopLookupRequests(shopName, ok) ==
  <<Req("delay", <<>>), Req("shopInfo", <<shopName>>)>>

\* findShopHasAnotherProduct's catch around one product probe
OtherProductCatch(eh, error) ==
  [errorHandler |-> Append(eh, error), rethrow |-> FALSE]

\* variant: shops whose seller id was not obtained are left out of the result
CrossSellResultResolvedOnly(cShopList, shopIdList) ==
  LET keep == SelectSeq([i \in DOMAIN cShopList |-> i],
                        LAMBDA i : shopIdList[i].id # <<>>)
  IN  [j \in DOMAIN keep |-> cShopList[keep[j]]]

\* the shop list findShopHasAnotherProduct returns
CrossSellResult(cShopList, shopIdList) == cShopList

\* variant: every requested product is probed, whether the shop has it or not
TargetProductsAll(list, requested, shopName) ==
  [i \in DOMAIN requested |-> requested[i].productName]

\* the requested products a shop has no entry for
TargetProducts(list, requested, shopName) ==
  LET idx == FindShopIndex(list, shopName)
      has == IF idx = 0 THEN {} ELSE DOMAIN list[idx].products
  IN  SelectSeq([i \in DOMAIN requested |-> requested[i].productName],
                LAMBDA x : x \notin has)

\* getShipInfo: the promise's outcome and the errors it leaves
getShipInfo(a, shop, idx, list, eh) ==
  LET conditions == IF a = "ok" THEN DiscountConditions(shop.id) ELSE <<>>
      freeShip == FreeShipFrom(conditions, 1, <<>>)
  IN  IF a = "fail"
      THEN [status |-> "fulfilled", value |-> setDefaultFreeShip(list, idx),
            errorHandler |->
              Append(eh, Err("string", "Error while getting ships info for",
                             <<shop.id>>))]
      ELSE [status |-> "fulfilled",
            value |-> IF Len(freeShip) = 0 THEN setDefaultFreeShip(list, idx)
                      ELSE freeShip,
            errorHandler |-> eh]

Pending == [status |-> "pending", value |-> <<>>]

\* variant: the join resolves with the first settled promise
FirstSettled(shipRes) ==
  shipRes = <<>> \/ \E i \in DOMAIN shipRes : shipRes[i].status # "pending"

\* Promise.allSettled: resolves when no promise is pending
AllSettled(shipRes) == \A i \in DOMAIN shipRes : shipRes[i].status # "pending"

\* variant: the results are assigned in the opposite order of the shops
RECURSIVE ApplyShipResultsReversed(_, _, _, _)
ApplyShipResultsReversed(shipRes, i, list, eh) ==
  IF i > Len(shipRes) THEN [shopList |-> list, errorHandler |-> eh]
  ELSE ApplyShipResultsReversed(shipRes, i + 1,
         [list EXCEPT ![i].freeShip = shipRes[Len(shipRes) + 1 - i].value], eh)

\* shopResults.forEach: the shop list and the errors after the join
RECURSIVE ApplyShipResults(_, _, _, _)
ApplyShipResults(shipRes, i, list, eh) ==
  IF i > Len(shipRes) THEN [shopList |-> list, errorHandler |-> eh]
  ELSE IF shipRes[i].status = "fulfilled"
  THEN ApplyShipResults(shipRes, i + 1,
                        [list EXCEPT ![i].freeShip = shipRes[i].value], eh)
  ELSE IF shipRes[i].status = "rejected"
  THEN ApplyShipResults(shipRes, i + 1,
                        [list EXCEPT ![i].freeShip = setDefaultFreeShip(list, i)],
                        Append(eh, shipRes[i].value))
  ELSE ApplyShipResults(shipRes, i + 1, list, eh)

(***************************************************************************)
(* The Data Access Facade                                                  *)
(* (src/libs/mongo-server/src/dataAccess/modelRegistry.test.ts:            *)
(* DataAccessService, lines 104-142, and the ModelRegistry its tests       *)
(* exercise).  Model handles are numbered in creation order, 0 is "no      *)
(* handle"; registry instances likewise, 0 is null.                        *)
(***************************************************************************)
\* entity names asked for; the last one has no schema in modelSchemas
ModelNames == {"cards", "decks", "meta_deck"}

\* the names modelSchemas registers
RegisteredNames == {"cards", "decks"}

\* no method is being checked on its own
NoPure == [kind |-> "none"]

NoDas ==
  [service |-> FALSE, registry |-> 0, isInit |-> FALSE,
   connectCalls |-> 0, established |-> 0, connectFails |-> 0,
   instance |-> 0, instancesMade |-> 0, gotInstances |-> <<>>,
   models |-> [n \in ModelNames |-> 0], modelsMade |-> 0,
   instDirects |-> 0, directs |-> 0, calls |-> <<>>, returns |-> <<>>]

\* ModelRegistry.getInstance(): the registry is created on first use
getInstance(d) ==
  IF d.instance = 0
  THEN [d EXCEPT !.instance = d.instancesMade + 1,
                 !.instancesMade = d.instancesMade + 1]
  ELSE d

\* variant: every name gets a model, the schema table is not consulted
getModelAnyName(d, name) ==
  IF d.models[name] # 0
  THEN [ok |-> TRUE, handle |-> d.models[name], made |-> FALSE, error |-> "", d |-> d]
  ELSE [ok |-> TRUE, handle |-> d.modelsMade + 1, made |-> TRUE, error |-> "",
        d |-> [d EXCEPT !.models[name] = d.modelsMade + 1,
                        !.modelsMade = d.modelsMade + 1]]

\* variant: a model is created on every call, the cache is not consulted
getModelUncached(d, name) ==
  IF name \notin RegisteredNames
  THEN [ok |-> FALSE, handle |-> 0, made |-> FALSE,
        error |-> "Schema not found for model", d |-> d]
  ELSE [ok |-> TRUE, handle |-> d.modelsMade + 1, made |-> TRUE, error |-> "",
        d |-> [d EXCEPT !.models[name] = d.modelsMade + 1,
                        !.modelsMade = d.modelsMade + 1]]

\* ModelRegistry.getModel(name): the cached handle, or a new mongoose model
\* of the registered schema, or the schema-not-found error
getModel(d, name) ==
  IF d.models[name] # 0
  THEN [ok |-> TRUE, handle |-> d.models[name], made |-> FALSE, error |-> "", d |-> d]
  ELSE IF name \notin RegisteredNames
  THEN [ok |-> FALSE, handle |-> 0, made |-> FALSE,
        error |-> "Schema not found for model", d |-> d]
  ELSE [ok |-> TRUE, handle |-> d.modelsMade + 1, made |-> TRUE, error |-> "",
        d |-> [d EXCEPT !.models[name] = d.modelsMade + 1,
                        !.modelsMade = d.modelsMade + 1]]

\* what is kept of one getModel call: `via` is the find call that made it
\* (0: called on the registry directly)
ModelReturn(r, name, via, before) ==
  [name |-> name, ok |-> r.ok, handle |-> r.handle, made |-> r.made,
   error |-> r.error, via |-> via, isInit |-> before.isInit,
   cacheBefore |-> before.models, cacheAfter |-> r.d.models,
   madeBefore |-> before.modelsMade, madeAfter |-> r.d.modelsMade]

\* ensureInitialized up to its first await: init() is entered, and
\* mongoose.connect called, when isInit is still false
ensureInitialized(d) ==
  IF ~d.isInit
  THEN [d |-> [d EXCEPT !.connectCalls = d.connectCalls + 1], pc |-> "connecting"]
  ELSE [d |-> d, pc |-> "ready"]

(***************************************************************************)
(* The state machine.                                                      *)
(***************************************************************************)
NoLoc ==
  [ext |-> <<>>, p |-> 0, prodList |-> <<>>, shopIdList |-> <<>>,
   stageB |-> <<>>, cShopList |-> <<>>, idx |-> 0, targets |-> <<>>, shipRes |-> <<>>,
   errBase |-> 0, written |-> {}, changed |-> FALSE]

Request(productName, count) == [productName |-> productName, count |-> count]

\* the shopping lists the service is constructed with
ShoppingLists ==
  { <<Request(P1, 5), Request(P2, 2), Request(P3, 1)>>,
    <<Request(P2, 4), Request(P1, 3)>> }

\* the constructor arguments SpecCtor checks
CtorRequests == {Request(n, c) : n \in {P1, P2}, c \in 0..MaxCount}

CtorArgs == UNION {[1..n -> CtorRequests] : n \in 0..MaxCtorLen}

Init ==
  /\ ctorArg \in ShoppingLists
  /\ constructed = TRUE
  /\ shoppingList = Constructor(ctorArg)
  /\ shoppingListExtended = <<>>
  /\ shopList = <<>>
  /\ errorHandler = <<>>
  /\ pc = "idle"
  /\ loc = NoLoc
  /\ answers = NoAnswers
  /\ adverseUsed = 0
  /\ changed = FALSE
  /\ log = <<>>
  /\ results = <<>>
  /\ das = NoDas
  /\ pure = NoPure

InitCtor ==
  /\ ctorArg \in CtorArgs
  /\ constructed = FALSE
  /\ shoppingList = <<>>
  /\ shoppingListExtended = <<>>
  /\ shopList = <<>>
  /\ errorHandler = <<>>
  /\ pc = "idle"
  /\ loc = NoLoc
  /\ answers = NoAnswers
  /\ adverseUsed = 0
  /\ changed = FALSE
  /\ log = <<>>
  /\ results = <<>>
  /\ das = NoDas
  /\ pure = NoPure

\* new GetShopListByRutenService(shoppingList, dataAccessService)
Construct ==
  /\ ~constructed
  /\ UNCHANGED <<das, pure>>
  /\ constructed' = TRUE
  /\ shoppingList' = Constructor(ctorArg)
  /\ UNCHANGED <<ctorArg, shoppingListExtended, shopList, errorHandler, pc, loc,
                 answers, adverseUsed, changed, log, results>>

\* the record kept of a call that returned `value`
Returned(value, stage) ==
  [value |-> value, stage |-> stage, errBase |-> loc.errBase,
   changed |-> loc.changed, written |-> loc.written]

\* getShopList is called: getProductRequestExtended builds its local list
StartRun ==
  /\ constructed
  /\ UNCHANGED <<das, pure>>
  /\ pc = "idle"
  /\ Len(results) < MaxRuns
  /\ pc' = "A"
  /\ loc' = [NoLoc EXCEPT
       !.ext = shopListExtend(shoppingList),
       !.p = 1,
       !.errBase = Len(errorHandler),
       !.changed = changed]
  /\ changed' = FALSE
  /\ log' = <<>>
  /\ UNCHANGED <<ctorArg, constructed, shoppingList, shoppingListExtended,
                 shopList, errorHandler, answers, adverseUsed, results>>

\* Stage A, one item: the card store is asked for the item's metadata
ResolveItem ==
  /\ pc = "A"
  /\ UNCHANGED <<das, pure>>
  /\ loc.p <= Len(loc.ext)
  /\ LET prod == loc.ext[loc.p]
     IN \E a \in Choices(answers, adverseUsed, "cards", prod.productName) :
          LET r == ResolveCard(a, prod)
              f == ResolveFailure(loc.ext, loc.p, errorHandler, r.error)
          IN /\ answers' = Remember(answers, "cards", prod.productName, a)
             /\ adverseUsed' = Spent(answers, adverseUsed, "cards", prod.productName, a)
             /\ log' = Append(log, Req("cards", <<prod.productName>>))
             /\ IF r.ok
                THEN /\ loc' = [loc EXCEPT !.ext[loc.p] = r.value, !.p = @ + 1]
                     /\ UNCHANGED <<errorHandler, pc, results>>
                ELSE IF f.abort
                THEN /\ errorHandler' = f.errorHandler
                     /\ pc' = "idle"
                     /\ results' = Append(results, Returned(<<>>, "A"))
                     /\ UNCHANGED loc
                ELSE /\ errorHandler' = f.errorHandler
                     /\ loc' = [loc EXCEPT !.ext = f.ext]
                     /\ UNCHANGED <<pc, results>>
  /\ UNCHANGED <<ctorArg, constructed, shoppingList, shoppingListExtended,
                 shopList, changed>>

\* Stage A ends: the resolved list becomes this.shoppingListExtended
FinishResolve ==
  /\ pc = "A"
  /\ UNCHANGED <<das, pure>>
  /\ loc.p > Len(loc.ext)
  /\ shoppingListExtended' = loc.ext
  /\ pc' = "B"
  /\ loc' = [loc EXCEPT !.p = 1]
  /\ UNCHANGED <<ctorArg, constructed, shoppingList, shopList, errorHandler,
                 answers, adverseUsed, changed, log, results>>

\* Stage B, one item: findProductList (search, detail batch, filter)
FetchProductList ==
  /\ pc = "B"
  /\ UNCHANGED <<das, pure>>
  /\ loc.p <= Len(shoppingListExtended)
  /\ LET prod == shoppingListExtended[loc.p]
         name == prod.productName
     IN \E a1 \in Choices(answers, adverseUsed, "search", name) :
        \E a2 \in (IF a1 = "ok" /\ Len(SearchRows(name)) > 0
                   THEN Choices(answers, adverseUsed, "detail", name)
                   ELSE {"skip"}) :
          LET r == findProductList(a1, a2, prod, shoppingListExtended)
              c == StageBCatch(loc.p, Len(shoppingListExtended), errorHandler, r.error)
              ans1 == Remember(answers, "search", name, a1)
          IN /\ answers' = Remember(ans1, "detail", name, a2)
             /\ adverseUsed' =
                  IF a2 = "skip" THEN Spent(answers, adverseUsed, "search", name, a1)
                  ELSE Spent(answers, adverseUsed, "detail", name, a2)
             /\ log' = log \o <<Req("search", <<name>>)>>
                           \o (IF a2 = "skip" THEN <<>> ELSE <<Req("detail", <<name>>)>>)
             /\ IF r.ok
                THEN /\ loc' = IF Len(r.value) = 0
                               THEN [loc EXCEPT !.p = @ + 1]
                               ELSE [loc EXCEPT !.prodList = r.value]
                     /\ pc' = IF Len(r.value) = 0 THEN "B" ELSE "Bmerge"
                     /\ UNCHANGED errorHandler
                ELSE IF c.rethrow
                THEN /\ pc' = "raised"
                     /\ UNCHANGED <<loc, errorHandler>>
                ELSE /\ errorHandler' = c.errorHandler
                     /\ loc' = [loc EXCEPT !.p = c.next]
                     /\ pc' = "B"
  /\ UNCHANGED <<ctorArg, constructed, shoppingList, shoppingListExtended,
                 shopList, changed, results>>

\* Stage B, one surviving listing: addOrUpdateShop, then push or replace
MergeListing ==
  /\ pc = "Bmerge"
  /\ UNCHANGED <<das, pure>>
  /\ LET prod == shoppingListExtended[loc.p]
         prodDetail == Head(loc.prodList)
         r == addOrUpdateShop(shopList, prod, prodDetail)
         rest == Tail(loc.prodList)
     IN /\ shopList' = IF r.idx = 0 THEN Append(shopList, r.shop)
                       ELSE [shopList EXCEPT ![r.idx] = r.shop]
        /\ loc' = [loc EXCEPT
             !.prodList = rest,
             !.written = @ \cup {<<prodDetail.shopId, prod.productName>>},
             !.p = IF Len(rest) = 0 THEN @ + 1 ELSE @]
        /\ pc' = IF Len(rest) = 0 THEN "B" ELSE "Bmerge"
  /\ UNCHANGED <<ctorArg, constructed, shoppingList, shoppingListExtended,
                 errorHandler, answers, adverseUsed, changed, log, results>>

\* Stage C begins: shopIdList is built and this.shopList is cloned
StartCrossSell ==
  /\ pc = "B"
  /\ UNCHANGED <<das, pure>>
  /\ loc.p > Len(shoppingListExtended)
  /\ loc' = [loc EXCEPT
       !.shopIdList = [i \in DOMAIN shopList |-> [name |-> shopList[i].id, id |-> <<>>]],
       !.stageB = shopList,
       !.cShopList = shopList,
       !.idx = 1]
  /\ pc' = "C"
  /\ UNCHANGED <<ctorArg, constructed, shoppingList, shoppingListExtended,
                 shopList, errorHandler, answers, adverseUsed, changed, log, results>>

\* Stage C, one shop: the delay, then getShopId and the products to probe
ProbeShop ==
  /\ pc = "C"
  /\ UNCHANGED <<das, pure>>
  /\ loc.idx <= Len(loc.shopIdList)
  /\ LET shop == loc.shopIdList[loc.idx]
     IN \E a \in Choices(answers, adverseUsed, "shopInfo", shop.name) :
          LET r == getShopId(a, shop.name)
              c == ShopIdCatch(loc.idx, Len(loc.shopIdList), errorHandler, r.error)
              targetProduct == TargetProducts(shopList, shoppingList, shop.name)
          IN /\ answers' = Remember(answers, "shopInfo", shop.name, a)
             /\ adverseUsed' = Spent(answers, adverseUsed, "shopInfo", shop.name, a)
             /\ log' = log \o ShopLookupRequests(shop.name, r.ok)
             /\ IF r.ok
                THEN /\ loc' = IF Len(targetProduct) = 0
                               THEN [loc EXCEPT !.shopIdList[loc.idx].id = r.value,
                                                !.idx = @ + 1]
                               ELSE [loc EXCEPT !.shopIdList[loc.idx].id = r.value,
                                                !.targets = targetProduct]
                     /\ pc' = IF Len(targetProduct) = 0 THEN "C" ELSE "Cprod"
                     /\ UNCHANGED errorHandler
                ELSE IF c.rethrow
                THEN /\ pc' = "raised"
                     /\ UNCHANGED <<loc, errorHandler>>
                ELSE /\ errorHandler' = c.errorHandler
                     /\ loc' = [loc EXCEPT !.idx = c.next]
                     /\ pc' = "C"
  /\ UNCHANGED <<ctorArg, constructed, shoppingList, shoppingListExtended,
                 shopList, changed, results>>

\* Stage C, one missing product of the current shop: getShopOtherProductInfo
ProbeProduct ==
  /\ pc = "Cprod"
  /\ UNCHANGED <<das, pure>>
  /\ LET shop == loc.shopIdList[loc.idx]
         prod == Head(loc.targets)
         rest == Tail(loc.targets)
         key == <<shop.name, prod>>
     IN \E a1 \in Choices(answers, adverseUsed, "shopSearch", key) :
        \E a2 \in (IF a1 = "ok" /\ Len(ShopRows(shop.name, prod)) > 0
                      /\ ShopRows(shop.name, prod)[1] # ""
                   THEN Choices(answers, adverseUsed, "shopDetail", key)
                   ELSE {"skip"}) :
          LET r == getShopOtherProductInfo(a1, a2, shop.name, shop.id, prod)
              c == OtherProductCatch(errorHandler, r.error)
              ans1 == Remember(answers, "shopSearch", key, a1)
              added == r.ok /\ r.value.id # ""
          IN /\ answers' = Remember(ans1, "shopDetail", key, a2)
             /\ adverseUsed' =
                  IF a2 = "skip" THEN Spent(answers, adverseUsed, "shopSearch", key, a1)
                  ELSE Spent(answers, adverseUsed, "shopDetail", key, a2)
             /\ log' = log \o <<Req("shopSearch", key)>>
                           \o (IF a2 = "skip" THEN <<>> ELSE <<Req("shopDetail", key)>>)
             /\ IF ~r.ok /\ c.rethrow
                THEN /\ pc' = "raised"
                     /\ UNCHANGED <<loc, errorHandler>>
                ELSE /\ errorHandler' = IF r.ok THEN errorHandler ELSE c.errorHandler
                     /\ loc' = [loc EXCEPT
                          !.cShopList = IF added
                                        THEN [@ EXCEPT ![loc.idx].products =
                                                MapSet(@, prod, r.value)]
                                        ELSE @,
                          !.written = IF added THEN @ \cup {key} ELSE @,
                          !.targets = rest,
                          !.idx = IF Len(rest) = 0 THEN @ + 1 ELSE @]
                     /\ pc' = IF Len(rest) = 0 THEN "C" ELSE "Cprod"
  /\ UNCHANGED <<ctorArg, constructed, shoppingList, shoppingListExtended,
                 shopList, changed, results>>

\* Stage C ends and Stage D fans out: this.shopList is replaced and one
\* shipping request per shop is issued
FinishCrossSell ==
  /\ pc = "C"
  /\ UNCHANGED <<das, pure>>
  /\ loc.idx > Len(loc.shopIdList)
  /\ shopList' = CrossSellResult(loc.cShopList, loc.shopIdList)
  /\ loc' = [loc EXCEPT !.shipRes = [i \in DOMAIN shopList' |-> Pending]]
  /\ log' = log \o [i \in DOMAIN shopList' |-> Req("ship", <<shopList'[i].id>>)]
  /\ pc' = "D"
  /\ UNCHANGED <<ctorArg, constructed, shoppingList, shoppingListExtended,
                 errorHandler, answers, adverseUsed, changed, results>>

\* Stage D, the shipping request of one shop is answered: getShipInfo finishes
ShipSettle ==
  /\ pc = "D"
  /\ UNCHANGED <<das, pure>>
  /\ \E i \in DOMAIN loc.shipRes :
       /\ loc.shipRes[i].status = "pending"
       /\ LET shop == shopList[i]
          IN \E a \in Choices(answers, adverseUsed, "ship", shop.id) :
               LET r == getShipInfo(a, shop, i, shopList, errorHandler)
               IN /\ answers' = Remember(answers, "ship", shop.id, a)
                  /\ adverseUsed' = Spent(answers, adverseUsed, "ship", shop.id, a)
                  /\ errorHandler' = r.errorHandler
                  /\ loc' = [loc EXCEPT !.shipRes[i] =
                               [status |-> r.status, value |-> r.value]]
  /\ UNCHANGED <<ctorArg, constructed, shoppingList, shoppingListExtended,
                 shopList, pc, changed, log, results>>

\* Stage D joins: freeShip is assigned per index and getShopList returns
JoinShip ==
  /\ pc = "D"
  /\ UNCHANGED <<das, pure>>
  /\ AllSettled(loc.shipRes)
  /\ LET r == ApplyShipResults(loc.shipRes, 1, shopList, errorHandler)
     IN /\ shopList' = r.shopList
        /\ errorHandler' = r.errorHandler
        /\ results' = Append(results, Returned(r.shopList, "D"))
  /\ pc' = "idle"
  /\ UNCHANGED <<ctorArg, constructed, shoppingList, shoppingListExtended,
                 loc, answers, adverseUsed, changed, log>>

\* between two calls the remote side changes: requests may answer anew
RemoteChange ==
  /\ pc = "idle"
  /\ UNCHANGED <<das, pure>>
  /\ Len(results) >= 1
  /\ Len(results) < MaxRuns
  /\ answers # NoAnswers
  /\ answers' = NoAnswers
  /\ changed' = TRUE
  /\ UNCHANGED <<ctorArg, constructed, shoppingList, shoppingListExtended,
                 shopList, errorHandler, pc, loc, adverseUsed, log, results>>

Next ==
  \/ StartRun
  \/ ResolveItem
  \/ FinishResolve
  \/ FetchProductList
  \/ MergeListing
  \/ StartCrossSell
  \/ ProbeShop
  \/ ProbeProduct
  \/ FinishCrossSell
  \/ ShipSettle
  \/ JoinShip
  \/ RemoteChange

Spec == Init /\ [][Next]_vars

NextCtor == Construct

SpecCtor == InitCtor /\ [][NextCtor]_vars

(***************************************************************************)
(* The state machine of the Data Access Facade.                             *)
(***************************************************************************)
InitDas ==
  /\ ctorArg \in {<<>>}
  /\ constructed = FALSE
  /\ shoppingList = <<>>
  /\ shoppingListExtended = <<>>
  /\ shopList = <<>>
  /\ errorHandler = <<>>
  /\ pc = "idle"
  /\ loc = NoLoc
  /\ answers = NoAnswers
  /\ adverseUsed = 0
  /\ changed = FALSE
  /\ log = <<>>
  /\ results = <<>>
  /\ das = NoDas
  /\ pure = NoPure

\* new DataAccessService(uri)
NewDataAccessService ==
  /\ ~das.service
  /\ das' = [getInstance(das) EXCEPT
               !.service = TRUE,
               !.registry = getInstance(das).instance,
               !.gotInstances = Append(das.gotInstances, getInstance(das).instance)]
  /\ UNCHANGED <<aggVars, pure>>

\* ModelRegistry.getInstance() called by other code
GetInstance ==
  /\ das.instDirects < MaxDirect
  /\ das' = [getInstance(das) EXCEPT
               !.instDirects = das.instDirects + 1,
               !.gotInstances = Append(das.gotInstances, getInstance(das).instance)]
  /\ UNCHANGED <<aggVars, pure>>

\* registry.getModel(name) called on the registry directly
GetModel ==
  /\ das.instance # 0
  /\ das.directs < MaxDirect
  /\ \E name \in ModelNames :
       LET r == getModel(das, name)
       IN  das' = [r.d EXCEPT !.directs = das.directs + 1,
                              !.returns = Append(das.returns,
                                                 ModelReturn(r, name, 0, das))]
  /\ UNCHANGED <<aggVars, pure>>

\* find(modelName) is called and runs to the await of ensureInitialized
FindStart ==
  /\ das.service
  /\ Len(das.calls) < MaxFinds
  /\ \E name \in ModelNames :
       LET e == ensureInitialized(das)
       IN  das' = [e.d EXCEPT !.calls = Append(das.calls,
                      [name |-> name, pc |-> e.pc, result |-> "", error |-> ""])]
  /\ UNCHANGED <<aggVars, pure>>

\* mongoose.connect of one call resolves: init sets isInit and returns
ConnectOk ==
  /\ \E c \in DOMAIN das.calls :
       /\ das.calls[c].pc = "connecting"
       /\ das' = [das EXCEPT !.isInit = TRUE,
                             !.established = das.established + 1,
                             !.calls[c].pc = "ready"]
  /\ UNCHANGED <<aggVars, pure>>

\* mongoose.connect of one call rejects: init rethrows, find rejects
ConnectFail ==
  /\ das.connectFails < MaxConnectFails
  /\ \E c \in DOMAIN das.calls :
       /\ das.calls[c].pc = "connecting"
       /\ das' = [das EXCEPT !.connectFails = das.connectFails + 1,
                             !.calls[c].pc = "failed",
                             !.calls[c].error = "MongoDB connection error"]
  /\ UNCHANGED <<aggVars, pure>>

\* find resumes after ensureInitialized: getModel, then the query is issued
ResolveModel ==
  /\ \E c \in DOMAIN das.calls :
       /\ das.calls[c].pc = "ready"
       /\ LET r == getModel(das, das.calls[c].name)
              ret == ModelReturn(r, das.calls[c].name, c, das)
          IN  das' = [r.d EXCEPT
                !.returns = Append(das.returns, ret),
                !.calls[c].pc = IF r.ok THEN "query" ELSE "failed",
                !.calls[c].error = r.error]
  /\ UNCHANGED <<aggVars, pure>>

\* model.find(...).exec() resolves with the documents
QuerySettle ==
  /\ \E c \in DOMAIN das.calls :
       /\ das.calls[c].pc = "query"
       /\ das' = [das EXCEPT !.calls[c].pc = "done",
                             !.calls[c].result = "documents"]
  /\ UNCHANGED <<aggVars, pure>>

NextDas ==
  \/ NewDataAccessService
  \/ GetInstance
  \/ GetModel
  \/ FindStart
  \/ ConnectOk
  \/ ConnectFail
  \/ ResolveModel
  \/ QuerySettle

SpecDas == InitDas /\ [][NextDas]_vars

(***************************************************************************)
(* The listing filter on its own: getProductRequestExtended resolves one   *)
(* requested product, then filterProdDetail is applied to a batch of       *)
(* listings.  A batch has up to MaxListings listings in ascending price    *)
(* order, as the remote search returns them; the listing at position i has *)
(* id i; all listings of a batch have one title, except the second and the *)
(* fifth, which have titles of their own.                                  *)
(***************************************************************************)
\* products asked of the filter: card D has three rarities, card B one;
\* "ur" and "R" match the stored "UR" under the case-insensitive pattern
FilterProducts ==
  { <<"D", "+", "U", "R">>, <<"D", "+", "S", "R">>, <<"D", "+", "u", "r">>,
    <<"D", "+", "R">>, <<"B", "+", "S", "R">>, <<"D", "+", "X">> }

FilterTitles ==
  { {<<"D">>, <<"U", "R">>},
    {<<"D">>, <<"S", "R">>},
    {<<"D">>, <<"U", "R">>, <<"S", "R">>},
    {<<"D">>, <<"U", "R">>, <<"N">>},
    {<<"D">>, <<"U", "R">>, <<"FAN">>},
    {<<"D">>, <<"U", "R">>, <<"PACK">>},
    {<<"D">>, <<"U", "R">>, <<"#">>},
    {<<"D">>, <<"u", "r">>},
    {<<"B">>, <<"S", "R">>} }

FilterBatch(n, base, second, fifth) ==
  [i \in 1..n |->
     [id |-> i,
      name |-> IF i = 2 THEN second ELSE IF i = 5 THEN fifth ELSE base,
      goods_price |-> 10 * i,
      num |-> 1, user |-> S1, deliver_way |-> <<Pair(SEVEN, 60)>>]]

FilterBatches ==
  {FilterBatch(n, t[1], t[2], t[3]) :
     n \in 0..MaxListings, t \in FilterTitles \X FilterTitles \X FilterTitles}

\* getProductRequestExtended with the card store answering every find
RECURSIVE ResolveFrom(_, _)
ResolveFrom(ext, p) ==
  IF p > Len(ext) THEN Ok(ext)
  ELSE LET r == ResolveCard("ok", ext[p])
       IN  IF r.ok THEN ResolveFrom([ext EXCEPT ![p] = r.value], p + 1)
           ELSE Throw(r.error)

getProductRequestExtended(list) == ResolveFrom(shopListExtend(list), 1)

InitFilter ==
  /\ ctorArg \in {<<Request(n, 1)>> : n \in FilterProducts}
  /\ constructed = TRUE
  /\ shoppingList = Constructor(ctorArg)
  /\ shoppingListExtended = <<>>
  /\ shopList = <<>>
  /\ errorHandler = <<>>
  /\ pc = "idle"
  /\ loc = NoLoc
  /\ answers = NoAnswers
  /\ adverseUsed = 0
  /\ changed = FALSE
  /\ log = <<>>
  /\ results = <<>>
  /\ das = NoDas
  /\ pure \in {[kind |-> "filter", stage |-> "new", data |-> d, out |-> <<>>] :
                 d \in FilterBatches}

\* Stage A for the one requested product
FilterResolve ==
  /\ pure.kind = "filter"
  /\ pure.stage = "new"
  /\ LET r == getProductRequestExtended(shoppingList)
     IN  IF r.ok
         THEN /\ shoppingListExtended' = r.value
              /\ pure' = [pure EXCEPT !.stage = "resolved"]
              /\ UNCHANGED errorHandler
         ELSE /\ errorHandler' = Append(errorHandler, r.error)
              /\ pure' = [pure EXCEPT !.stage = "aborted"]
              /\ UNCHANGED shoppingListExtended
  /\ UNCHANGED <<ctorArg, constructed, shoppingList, shopList, pc, loc, answers,
                 adverseUsed, changed, log, results, das>>

\* filterProdDetail(prodDetailListRes, productName)
FilterApply ==
  /\ pure.kind = "filter"
  /\ pure.stage = "resolved"
  /\ pure' = [pure EXCEPT
       !.stage = "done",
       !.out = filterProdDetail(pure.data, shoppingList[1].productName,
                                shoppingListExtended)]
  /\ UNCHANGED <<aggVars, das>>

NextFilter ==
  \/ FilterResolve
  \/ FilterApply

SpecFilter == InitFilter /\ [][NextFilter]_vars

(***************************************************************************)
(* Shop creation on its own: addOrUpdateShop is given one listing with     *)
(* declared shipping methods while the shop list is empty, and the shop it *)
(* returns is pushed, as in Stage B.                                       *)
(***************************************************************************)
\* keys of deliver_way: the store carriers in alias, canonical and _COD
\* form, and a method that is not a store carrier
WayKeys ==
  { <<"SEVEN">>, <<"SEVEN", "_COD">>, <<"FAMI">>, <<"FAMI", "_COD">>,
    <<"FAMI", "LY">>, <<"HILIFE">>, <<"HILIFE", "_COD">>, <<"POST">> }

WayFees == {45, 60}

\* deliver_way objects: up to MaxWays methods with different keys
DeliverWays ==
  UNION { {w \in [1..n -> {Pair(k, f) : k \in WayKeys, f \in WayFees}] :
             \A i, j \in 1..n : w[i].k = w[j].k => i = j} : n \in 0..MaxWays }

InitShip ==
  /\ ctorArg \in {<<Request(P1, 1)>>}
  /\ constructed = TRUE
  /\ shoppingList = Constructor(ctorArg)
  /\ shoppingListExtended = <<>>
  /\ shopList = <<>>
  /\ errorHandler = <<>>
  /\ pc = "idle"
  /\ loc = NoLoc
  /\ answers = NoAnswers
  /\ adverseUsed = 0
  /\ changed = FALSE
  /\ log = <<>>
  /\ results = <<>>
  /\ das = NoDas
  /\ pure \in {[kind |-> "ship", stage |-> "new", deliver_way |-> w] :
                 w \in DeliverWays}

\* Stage A for the one requested product
ShipResolve ==
  /\ pure.kind = "ship"
  /\ pure.stage = "new"
  /\ shoppingListExtended' = getProductRequestExtended(shoppingList).value
  /\ pure' = [pure EXCEPT !.stage = "resolved"]
  /\ UNCHANGED <<ctorArg, constructed, shoppingList, shopList, errorHandler, pc,
                 loc, answers, adverseUsed, changed, log, results, das>>

\* addOrUpdateShop(prod, prodDetail) and the push of the shop it created
ShipCreate ==
  /\ pure.kind = "ship"
  /\ pure.stage = "resolved"
  /\ LET prodDetail == [price |-> 10, qtl |-> 1, id |-> "L1", shopId |-> S1,
                        deliver_way |-> pure.deliver_way]
         r == addOrUpdateShop(shopList, shoppingListExtended[1], prodDetail)
     IN  shopList' = IF r.idx = 0 THEN Append(shopList, r.shop)
                     ELSE [shopList EXCEPT ![r.idx] = r.shop]
  /\ pure' = [pure EXCEPT !.stage = "done"]
  /\ UNCHANGED <<ctorArg, constructed, shoppingList, shoppingListExtended,
                 errorHandler, pc, loc, answers, adverseUsed, changed, log,
                 results, das>>

NextShip ==
  \/ ShipResolve
  \/ ShipCreate

SpecShip == InitShip /\ [][NextShip]_vars

(***************************************************************************)
(* Vocabulary of the properties.                                           *)
(***************************************************************************)
LastRun == results[Len(results)]

\* the last call has returned and the requests' answers are still those it got
JustReturned == pc = "idle" /\ Len(results) >= 1 /\ ~changed

\* the last call went through Stages B, C and D
RanAllStages == JustReturned /\ LastRun.stage = "D"

ShopIds(list) == [i \in DOMAIN list |-> list[i].id]

RequestedNames == [i \in DOMAIN shoppingList |-> shoppingList[i].productName]

\* how often the call in flight (or the last one) has recorded this error
ErrorCount(error) ==
  Cardinality({i \in (loc.errBase + 1)..Len(errorHandler) : errorHandler[i] = error})

\* the answer a request got, "skip" when it was not made
AnswerOf(ep, arg) ==
  IF answers[ep][arg] = "unasked" THEN "skip" ELSE answers[ep][arg]

\* what findProductList gave for an item, from the answers its requests got
ItemOutcome(prod) ==
  findProductList(AnswerOf("search", prod.productName),
                  AnswerOf("detail", prod.productName),
                  prod, shoppingListExtended)

SearchLog == SelectSeq(log, LAMBDA r : r.ep = "search")

\* requests of the call whose answer made the calling method throw
FailedRequests ==
  {i \in DOMAIN log :
     /\ log[i].ep # "delay"
     /\ LET arg == IF Len(log[i].args) = 1 THEN log[i].args[1] ELSE log[i].args
            a == answers[log[i].ep][arg]
        IN a = "fail" \/ (log[i].ep = "cards" /\ a = "none")}

(***************************************************************************)
(* C1.  Partial failure in Stage B: when the remote fetch of an item       *)
(* fails, every item of the resolved list is still fetched, in list order; *)
(* every shop found through an item whose fetch succeeded is in the        *)
(* returned list; and exactly one error record of the failed item is       *)
(* appended to the errors.                                                 *)
(***************************************************************************)
C1_PartialFailure ==
  RanAllStages =>
    /\ SearchLog = [i \in DOMAIN shoppingListExtended |->
                      Req("search", <<shoppingListExtended[i].productName>>)]
    /\ \A i \in DOMAIN shoppingListExtended :
         LET r == ItemOutcome(shoppingListExtended[i])
         IN IF r.ok
            THEN \A j \in DOMAIN r.value :
                   r.value[j].shopId \in Range(ShopIds(LastRun.value))
            ELSE ErrorCount(r.error) = 1

C1_Witness ==
  /\ RanAllStages
  /\ \E i, j \in DOMAIN shoppingListExtended :
       /\ i < j
       /\ ~ItemOutcome(shoppingListExtended[i]).ok
       /\ ItemOutcome(shoppingListExtended[j]).ok
       /\ Len(ItemOutcome(shoppingListExtended[j]).value) > 0
       /\ Len(LastRun.value) > 0

(***************************************************************************)
(* C2.  getShopList never raises: whatever the card store and the          *)
(* marketplace requests answer, no exception leaves the call, and every    *)
(* failed request of a finished call is one record of the errors.          *)
(***************************************************************************)
C2_NeverRaises ==
  /\ pc # "raised"
  /\ JustReturned =>
       Len(errorHandler) - LastRun.errBase = Cardinality(FailedRequests)

C2_Witness ==
  /\ RanAllStages
  /\ Cardinality({log[i].ep : i \in FailedRequests}) >= 2

NoRecognisedFreeShip(shopId) ==
  \/ answers.ship[shopId] \in {"fail", "none"}
  \/ /\ answers.ship[shopId] = "ok"
     /\ FreeShipFrom(DiscountConditions(shopId), 1, <<>>) = <<>>

(***************************************************************************)
(* C4 as stated.  Every shop of the result for which Stage D found no      *)
(* recognised free-shipping entry (none returned, or the fetch failed)     *)
(* ends with exactly one freeShip entry, keyed by the first key of its     *)
(* shipPrices, a real carrier of the shop, with the sentinel as value;     *)
(* also a shop whose shipPrices is empty.                                  *)
(***************************************************************************)
C4_ShippingFallback ==
  RanAllStages =>
    \A i \in DOMAIN LastRun.value :
      LET shop == LastRun.value[i]
      IN NoRecognisedFreeShip(shop.id) =>
           /\ Len(shop.shipPrices) >= 1
           /\ shop.freeShip = <<Pair(shop.shipPrices[1].k, Sentinel)>>

ShipError(shopId) == Err("string", "Error while getting ships info for", <<shopId>>)

(***************************************************************************)
(* C5.  Stage D is a settle-all join: when getShopList returns, the        *)
(* shipping fetch of every shop has settled, whether or not another one    *)
(* failed; every failed fetch has left one error record; and every shop    *)
(* carries the freeShip its own fetch produced.                            *)
(***************************************************************************)
C5_SettleAllJoin ==
  RanAllStages =>
    /\ Len(loc.shipRes) = Len(LastRun.value)
    /\ \A i \in DOMAIN LastRun.value :
         /\ loc.shipRes[i].status # "pending"
         /\ answers.ship[LastRun.value[i].id] # "unasked"
         /\ LastRun.value[i].freeShip = loc.shipRes[i].value
         /\ Len(LastRun.value[i].freeShip) >= 1
         /\ answers.ship[LastRun.value[i].id] = "fail"
              => ErrorCount(ShipError(LastRun.value[i].id)) = 1

C5_Witness ==
  /\ RanAllStages
  /\ \E i, j \in DOMAIN LastRun.value :
       /\ i < j
       /\ answers.ship[LastRun.value[i].id] = "fail"
       /\ answers.ship[LastRun.value[j].id] = "ok"
       /\ LastRun.value[j].freeShip = loc.shipRes[j].value

UniqueIds(list) ==
  \A i, j \in DOMAIN list : list[i].id = list[j].id => i = j

(***************************************************************************)
(* C6.  Shop uniqueness: in every state of a call, and in every returned   *)
(* list, no two entries of the shop list have the same shop id.            *)
(***************************************************************************)
C6_ShopUniqueness ==
  /\ UniqueIds(shopList)
  /\ UniqueIds(loc.cShopList)
  /\ \A k \in DOMAIN results : UniqueIds(results[k].value)

\* a second listing of the same shop for the same product has been merged,
\* and a listing of that shop for another product follows
C6_Witness ==
  /\ pc = "B"
  /\ \E i \in DOMAIN shopList :
       /\ shopList[i].id = S2
       /\ DOMAIN shopList[i].products = {P1, P2}
  /\ \E i \in DOMAIN shopList :
       /\ shopList[i].id = S1
       /\ shopList[i].products[P1].id = "L2"

ProbeOutcome(shopName, prod) ==
  getShopOtherProductInfo(AnswerOf("shopSearch", <<shopName, prod>>),
                          AnswerOf("shopDetail", <<shopName, prod>>),
                          shopName, UserId(shopName), prod)

AfterCrossSell == pc = "D" \/ RanAllStages

(***************************************************************************)
(* C7.  Stage C failure containment: the shop ids of the list Stage C      *)
(* returns are those of Stage B, in the same order; a shop whose seller-id *)
(* lookup failed gets no addition and one error; a product whose probe     *)
(* failed is not added and leaves one error, while every other missing     *)
(* product of that shop and of the other shops is still probed, and an     *)
(* entry found in Stage B is kept as it was.                               *)
(***************************************************************************)
C7_CrossSellContainment ==
  AfterCrossSell =>
    /\ ShopIds(shopList) = ShopIds(loc.stageB)
    /\ \A i \in DOMAIN loc.stageB :
         LET name == loc.stageB[i].id
             before == loc.stageB[i].products
             after == shopList[i].products
             targets == TargetProducts(loc.stageB, shoppingList, name)
         IN /\ \A x \in DOMAIN before : x \in DOMAIN after /\ after[x] = before[x]
            /\ IF answers.shopInfo[name] = "fail"
               THEN /\ DOMAIN after = DOMAIN before
                    /\ ErrorCount(getShopId("fail", name).error) = 1
                    /\ \A x \in Products :
                         Req("shopSearch", <<name, x>>) \notin Range(log)
               ELSE \A j \in DOMAIN targets :
                      LET r == ProbeOutcome(name, targets[j])
                      IN /\ Req("shopSearch", <<name, targets[j]>>) \in Range(log)
                         /\ IF r.ok /\ r.value.id # ""
                            THEN /\ targets[j] \in DOMAIN after
                                 /\ after[targets[j]] = r.value
                            ELSE targets[j] \notin DOMAIN after
                         /\ ~r.ok => ErrorCount(r.error) = 1

\* the first shop's first probe failed and its second probe added an entry,
\* and the second shop's seller-id lookup failed
C7_Witness ==
  /\ pc = "D"
  /\ Len(shopList) = 2
  /\ answers.shopSearch[<<shopList[1].id, P2>>] = "fail"
  /\ P3 \in DOMAIN shopList[1].products
  /\ answers.shopInfo[shopList[2].id] = "fail"

(***************************************************************************)
(* C8.  Count clamp: after construction the service holds, for every       *)
(* requested item in the order given, the same product name with count 3   *)
(* when the requested count exceeds 3 and the requested count otherwise.   *)
(***************************************************************************)
C8_CountClamp ==
  constructed =>
    /\ Len(shoppingList) = Len(ctorArg)
    /\ \A i \in DOMAIN ctorArg :
         /\ shoppingList[i].productName = ctorArg[i].productName
         /\ ctorArg[i].count > 3 => shoppingList[i].count = 3
         /\ ctorArg[i].count <= 3 => shoppingList[i].count = ctorArg[i].count

C8_Witness ==
  /\ constructed
  /\ \E i, j \in DOMAIN ctorArg :
       /\ ctorArg[i].count > 3
       /\ ctorArg[j].count <= 3
       /\ ctorArg[i].productName # ctorArg[j].productName

ShopView(shop) ==
  [id |-> shop.id, products |-> shop.products,
   shipPrices |-> Range(shop.shipPrices), freeShip |-> Range(shop.freeShip)]

ShopSet(list) == {ShopView(list[i]) : i \in DOMAIN list}

(***************************************************************************)
(* C9.  Idempotence: a call made on the same service instance after        *)
(* another one, with every request answering as it did before, returns the *)
(* same set of Shop records (ids, products, shipPrices and freeShip as     *)
(* mappings; the order of the list aside).                                 *)
(***************************************************************************)
C9_Idempotent ==
  \A k \in DOMAIN results :
    (k >= 2 /\ ~results[k].changed) =>
      ShopSet(results[k].value) = ShopSet(results[k - 1].value)

\* the second call returned shops, one of them with an entry added by Stage C
C9_Witness ==
  /\ Len(results) >= 2
  /\ ~results[2].changed
  /\ \E i \in DOMAIN results[2].value :
       \E x \in DOMAIN results[2].value[i].products :
         results[2].value[i].products[x].id \in {"X2", "X3", "X4"}

(***************************************************************************)
(* C10 as stated.  Run scoping: what a call returns and the errors         *)
(* accumulated when it returns were produced by that call: every product   *)
(* entry of every returned shop was written during the call, and no error  *)
(* recorded before the call started is in the error sequence.              *)
(***************************************************************************)
C10_RunScoped ==
  \A k \in DOMAIN results :
    /\ results[k].errBase = 0
    /\ \A i \in DOMAIN results[k].value :
         \A x \in DOMAIN results[k].value[i].products :
           <<results[k].value[i].id, x>> \in results[k].written

\* the getModel calls that returned a handle
OkReturns == {i \in DOMAIN das.returns : das.returns[i].ok}

\* the find calls made with a name that has no registered schema
UnregisteredFinds == {c \in DOMAIN das.calls : das.calls[c].name \notin RegisteredNames}

(***************************************************************************)
(* C11 as stated.  Connect-once: whatever find calls are made on one       *)
(* DataAccessService and however they interleave, calls started while the  *)
(* first connection attempt is in flight included, the connection to the   *)
(* document store is established at most once.                             *)
(***************************************************************************)
C11_ConnectOnce == das.established <= 1

(***************************************************************************)
(* C12.  Model-handle cache: getInstance always returns the same registry; *)
(* the first getModel(name) creates the handle of a registered name, every *)
(* later getModel(name) returns that handle and creates nothing, and two   *)
(* different names never share a handle.                                   *)
(***************************************************************************)
C12_ModelHandleCache ==
  /\ \A i \in DOMAIN das.gotInstances :
       /\ das.gotInstances[i] = das.instance
       /\ das.gotInstances[i] # 0
  /\ das.registry \in {0, das.instance}
  /\ das.instancesMade <= 1
  /\ \A i \in OkReturns :
       LET r == das.returns[i]
       IN  /\ r.handle # 0
           /\ r.handle = r.cacheAfter[r.name]
           /\ r.made <=> (r.cacheBefore[r.name] = 0)
           /\ r.madeAfter = r.madeBefore + (IF r.made THEN 1 ELSE 0)
           /\ \A n \in ModelNames \ {r.name} : r.cacheAfter[n] = r.cacheBefore[n]
  /\ \A i, j \in OkReturns :
       /\ (i < j /\ das.returns[i].name = das.returns[j].name)
            => /\ das.returns[j].handle = das.returns[i].handle
               /\ ~das.returns[j].made
       /\ das.returns[i].name # das.returns[j].name
            => das.returns[i].handle # das.returns[j].handle
  /\ \A n, m \in ModelNames :
       (n # m /\ das.models[n] # 0) => das.models[n] # das.models[m]

C12_Witness ==
  /\ Len(das.gotInstances) >= 2
  /\ \E i, j, k \in OkReturns :
       /\ i < j
       /\ das.returns[i].name = das.returns[j].name
       /\ das.returns[i].made
       /\ das.returns[k].name # das.returns[i].name
       /\ das.returns[k].made

(***************************************************************************)
(* C13.  Unregistered schema: getModel with a name that has no registered  *)
(* schema fails with the schema-not-found error, returns no handle and     *)
(* leaves the model cache as it was; a find with such a name never returns *)
(* documents and, once its connection is there, fails with that error;     *)
(* find connects lazily: nothing connects before the first find, and the   *)
(* model is resolved only with the connection established.                 *)
(***************************************************************************)
C13_UnregisteredSchema ==
  /\ \A i \in DOMAIN das.returns :
       LET r == das.returns[i]
       IN  /\ r.name \notin RegisteredNames
                => /\ ~r.ok
                   /\ r.handle = 0
                   /\ r.error = "Schema not found for model"
                   /\ r.cacheAfter = r.cacheBefore
                   /\ r.madeAfter = r.madeBefore
           /\ r.name \in RegisteredNames => r.ok
           /\ r.via # 0 => r.isInit
  /\ \A n \in ModelNames \ RegisteredNames : das.models[n] = 0
  /\ \A c \in UnregisteredFinds :
       /\ das.calls[c].pc \in {"connecting", "ready", "failed"}
       /\ das.calls[c].result = ""
       /\ (das.calls[c].pc = "failed"
             /\ \E i \in DOMAIN das.returns : das.returns[i].via = c)
            => das.calls[c].error = "Schema not found for model"
  /\ das.calls = <<>> => das.connectCalls = 0

C13_Witness ==
  \E c \in UnregisteredFinds :
    /\ das.calls[c].pc = "failed"
    /\ das.calls[c].error = "Schema not found for model"
    /\ \E i, j \in DOMAIN das.returns :
         /\ das.returns[i].via = c
         /\ i < j
         /\ das.returns[j].name \in RegisteredNames
         /\ das.returns[j].made
    /\ \E b \in DOMAIN das.calls :
         das.calls[b].name \in RegisteredNames /\ das.calls[b].pc = "done"

\* the delays and requests of Stage C, in the order the call made them
StageCLog ==
  SelectSeq(log, LAMBDA r : r.ep \in {"delay", "shopInfo", "shopSearch", "shopDetail"})

SellerLookups == SelectSeq(StageCLog, LAMBDA r : r.ep = "shopInfo")

(***************************************************************************)
(* C14.  Stage C cadence: the shops are probed one after another in        *)
(* discovery order, every request for a shop's products comes after that   *)
(* shop's seller-id request and before the next shop's delay, and the      *)
(* delay is taken exactly once per shop, directly before the shop's first  *)
(* request, also when the seller-id lookup or a product probe fails.       *)
(***************************************************************************)
C14_StageCCadence ==
  LET L == StageCLog
  IN  /\ \A k \in DOMAIN L :
           /\ L[k].ep = "delay" => (k < Len(L) /\ L[k + 1].ep = "shopInfo")
           /\ L[k].ep = "shopInfo" => (k > 1 /\ L[k - 1].ep = "delay")
           /\ L[k].ep \in {"shopSearch", "shopDetail"} =>
                \E j \in 1..(k - 1) :
                  /\ L[j].ep = "shopInfo"
                  /\ L[j].args[1] = L[k].args[1]
                  /\ \A n \in (j + 1)..k : L[n].ep \in {"shopSearch", "shopDetail"}
      /\ Len(SellerLookups) <= Len(loc.stageB)
      /\ \A i \in DOMAIN SellerLookups :
           SellerLookups[i].args[1] = loc.stageB[i].id
      /\ AfterCrossSell => Len(SellerLookups) = Len(loc.stageB)

\* two shops: the seller-id lookup of the first failed, a product probe of
\* the second failed, and Stage C is over
C14_Witness ==
  /\ AfterCrossSell
  /\ Len(loc.stageB) = 2
  /\ answers.shopInfo[loc.stageB[1].id] = "fail"
  /\ \E x \in Products :
       /\ Req("shopSearch", <<loc.stageB[2].id, x>>) \in Range(log)
       /\ answers.shopSearch[<<loc.stageB[2].id, x>>] = "fail"

\* the product the filter was asked for, its resolved rarities and rarity code
FilterProduct == shoppingList[1].productName

FilterRarities == RaritiesOf(shoppingListExtended, FilterProduct)

FilterRarity == NowRarity(FilterProduct)

\* a listing passes the four title checks
PassesTitleChecks(x) ==
  /\ containsAllKeywords(x.name, FilterProduct)
  /\ isIllegalProductChar(x.name)
  /\ isFanMode(x.name)
  /\ isUnopenedPackProduct(x.name)

\* a listing survives every stage of the filter
Survives(x) ==
  /\ PassesTitleChecks(x)
  /\ (Len(FilterRarities) > 0 /\ Len(FilterRarity) > 0) =>
       \A y \in Range(FilterRarities) \ {FilterRarity} :
         notContainsAnotherRarity(x.name, y, Len(FilterRarities))

Survivors == SelectSeq(pure.data, Survives)

FilterDone == pure.kind = "filter" /\ pure.stage = "done"

(***************************************************************************)
(* C15.  Rarity disambiguation: when the product has more than one known   *)
(* rarity and a rarity X is requested, no listing of the filter's result   *)
(* has a title that indicates a known rarity Y other than X.               *)
(***************************************************************************)
C15_RarityDisambiguation ==
  (FilterDone /\ Len(FilterRarities) > 1 /\ Len(FilterRarity) > 0) =>
    \A i \in DOMAIN pure.out :
      \A y \in Range(FilterRarities) \ {FilterRarity} :
        y \notin pure.data[pure.out[i].id].name

\* three known rarities, listings that indicate each of the two others pass
\* the title checks, and something is left in the result
C15_Witness ==
  /\ FilterDone
  /\ Len(FilterRarities) > 2
  /\ Len(pure.out) > 0
  /\ \A y \in Range(FilterRarities) \ {FilterRarity} :
       \E i \in DOMAIN pure.data :
         PassesTitleChecks(pure.data[i]) /\ y \in pure.data[i].name

(***************************************************************************)
(* C16.  Filter truncation: the filter returns at most 10 listings; they   *)
(* are the first 10 (or all, if fewer) listings of the input that survive  *)
(* every stage, in input order, and with the input in ascending price      *)
(* order no surviving listing left out is cheaper than one returned.       *)
(***************************************************************************)
C16_FilterTruncation ==
  FilterDone =>
    /\ Len(pure.out) <= 10
    /\ Len(pure.out) = Min(Len(Survivors), 10)
    /\ \A i \in DOMAIN pure.out :
         /\ pure.out[i].id = Survivors[i].id
         /\ pure.out[i].price = Survivors[i].goods_price
         /\ pure.out[i].qtl = Survivors[i].num
         /\ pure.out[i].shopId = Survivors[i].user
         /\ pure.out[i].deliver_way = Survivors[i].deliver_way
    /\ \A i \in DOMAIN pure.out :
         \A j \in DOMAIN Survivors :
           j > Len(pure.out) => Survivors[j].goods_price >= pure.out[i].price

\* more than 10 listings survive, and one of the first 10 of the input does not
C16_Witness ==
  /\ FilterDone
  /\ Len(Survivors) > 10
  /\ \E i \in 1..10 : ~Survives(pure.data[i])

(***************************************************************************)
(* C20 as stated.  Resolution and filter agree on the requested rarity:    *)
(* when Stage A accepts a request, no stored rarity that the requested     *)
(* code matched is among the other rarities the filter rejects listings    *)
(* for.                                                                    *)
(***************************************************************************)
C20_ResolutionFilterAgree ==
  (pure.kind = "filter" /\ pure.stage \in {"resolved", "done"}) =>
    \A y \in Range(FilterRarities) :
      RegexMatchI(FilterRarity, y) =>
        y \notin Range(OtherRarities(FilterRarities, FilterRarity))

\* the canonical carrier a declared shipping method belongs to; <<>> for a
\* method of no recognised convenience-store carrier
CarrierOf(way) ==
  LET base == SelectSeq(way, LAMBDA tok : tok # "_COD")
  IN  IF base = <<"SEVEN">> THEN SEVEN
      ELSE IF base = <<"FAMI">> \/ base = <<"FAMI", "LY">> THEN FAMILY
      ELSE IF base = <<"HILIFE">> THEN HILIFE
      ELSE <<>>

(***************************************************************************)
(* C17 as stated.  shipPrices seeding: the shipPrices of a created Shop    *)
(* has an entry for every declared method of a recognised carrier and for  *)
(* nothing else; every key is one of SEVEN, FAMILY, HILIFE, the alias      *)
(* merged into its canonical name, for keys in canonical form and keys     *)
(* with the _COD suffix too; and every fee is the declared fee of a method *)
(* of that carrier.                                                        *)
(***************************************************************************)
C17_ShipPricesSeeding ==
  (pure.kind = "ship" /\ pure.stage = "done") =>
    LET shipPrices == shopList[1].shipPrices
        declared == pure.deliver_way
    IN  /\ \A i \in DOMAIN shipPrices :
             /\ shipPrices[i].k \in {SEVEN, FAMILY, HILIFE}
             /\ \E j \in DOMAIN declared :
                  /\ CarrierOf(declared[j].k) = shipPrices[i].k
                  /\ declared[j].v = shipPrices[i].v
        /\ \A j \in DOMAIN declared :
             CarrierOf(declared[j].k) # <<>> =>
               \E i \in DOMAIN shipPrices : shipPrices[i].k = CarrierOf(declared[j].k)

\* the shop search requests Stage C made, as <<shop, product>> pairs
ShopSearches == {r.args : r \in {x \in Range(log) : x.ep = "shopSearch"}}

(***************************************************************************)
(* C18.  Stage C probes and adds only missing products: a shop's own       *)
(* product search is queried only for requested products the shop has no   *)
(* entry for after Stage B; an entry found in Stage B is neither changed   *)
(* nor removed; and an entry is attached only when the shop search gave a  *)
(* top result with a non-empty id and the detail fetch of it succeeded.    *)
(***************************************************************************)
C18_ProbeOnlyMissing ==
  AfterCrossSell =>
    /\ \A key \in ShopSearches :
         /\ key[2] \in Range(RequestedNames)
         /\ \E i \in DOMAIN loc.stageB :
              /\ loc.stageB[i].id = key[1]
              /\ key[2] \notin DOMAIN loc.stageB[i].products
    /\ Len(shopList) = Len(loc.stageB)
    /\ \A i \in DOMAIN loc.stageB :
         LET name == loc.stageB[i].id
             before == loc.stageB[i].products
             after == shopList[i].products
         IN  /\ \A x \in DOMAIN before : x \in DOMAIN after /\ after[x] = before[x]
             /\ \A x \in DOMAIN after \ DOMAIN before :
                  LET rows == ShopRows(name, x)
                  IN  /\ <<name, x>> \in ShopSearches
                      /\ answers.shopSearch[<<name, x>>] = "ok"
                      /\ Len(rows) > 0
                      /\ rows[1] # ""
                      /\ answers.shopDetail[<<name, x>>] = "ok"
                      /\ after[x].id = rows[1]

\* Stage C probed a shop that had an entry from Stage B: one probe attached
\* an entry, one got a top result without id, one lost its detail fetch
C18_Witness ==
  /\ AfterCrossSell
  /\ \E i \in DOMAIN loc.stageB :
       /\ DOMAIN loc.stageB[i].products # {}
       /\ DOMAIN shopList[i].products # DOMAIN loc.stageB[i].products
  /\ \E key \in ShopSearches :
       /\ answers.shopSearch[key] = "ok"
       /\ ShopRows(key[1], key[2])[1] = ""
  /\ \E key \in ShopSearches : answers.shopDetail[key] \in {"fail", "none"}

\* the freeShip a shop gets from its own shipping fetch, or its own fallback
OwnFreeShip(shop) ==
  LET found == IF answers.ship[shop.id] = "ok"
               THEN FreeShipFrom(DiscountConditions(shop.id), 1, <<>>)
               ELSE <<>>
      keys == ObjKeys(shop.shipPrices)
  IN  IF Len(found) > 0 THEN found
      ELSE <<Pair(IF Len(keys) = 0 THEN <<"undefined">> ELSE keys[1], Sentinel)>>

\* position of the first record of an error among the errors of the call; 0 if none
ErrorPosition(error) ==
  LET at == {i \in (loc.errBase + 1)..Len(errorHandler) : errorHandler[i] = error}
  IN  IF at = {} THEN 0 ELSE CHOOSE i \in at : \A j \in at : i <= j

(***************************************************************************)
(* C19.  Stage D index stability: in whatever order the concurrent         *)
(* shipping fetches complete, the shop at index i ends with the freeShip   *)
(* derived from the fetch made for that shop, or with that shop's own      *)
(* fallback; and from the fan-out to the return Stage D changes no shop's  *)
(* id, products or shipPrices, nor the length or order of the list.        *)
(***************************************************************************)
C19_IndexStability ==
  /\ pc = "D" => shopList = loc.cShopList
  /\ RanAllStages =>
       /\ Len(LastRun.value) = Len(loc.cShopList)
       /\ \A i \in DOMAIN LastRun.value :
            /\ LastRun.value[i].id = loc.cShopList[i].id
            /\ LastRun.value[i].products = loc.cShopList[i].products
            /\ LastRun.value[i].shipPrices = loc.cShopList[i].shipPrices
            /\ LastRun.value[i].freeShip = OwnFreeShip(loc.cShopList[i])

\* two shops whose fetches both failed, the second shop's before the first
\* shop's, and whose fallbacks differ
C19_Witness ==
  /\ RanAllStages
  /\ Len(LastRun.value) = 2
  /\ ErrorPosition(ShipError(LastRun.value[1].id)) > 0
  /\ ErrorPosition(ShipError(LastRun.value[2].id)) > 0
  /\ ErrorPosition(ShipError(LastRun.value[2].id))
       < ErrorPosition(ShipError(LastRun.value[1].id))
  /\ LastRun.value[1].freeShip # LastRun.value[2].freeShip

\* the listings of one shop among those the filter kept for an item
ListingsOfShop(prod, shopId) ==
  LET r == ItemOutcome(prod)
  IN  IF r.ok THEN SelectSeq(r.value, LAMBDA d : d.shopId = shopId) ELSE <<>>

(***************************************************************************)
(* C21 as stated.  Cheapest listing per shop and product: when several     *)
(* listings of one shop for one requested product survive the filter (the  *)
(* input being in ascending price order), the product entry the shop has   *)
(* after Stage B is the lowest-priced of those listings.                   *)
(***************************************************************************)
C21_CheapestListing ==
  pc \in {"C", "Cprod", "D"} =>
    \A p \in DOMAIN shoppingListExtended :
      \A i \in DOMAIN loc.stageB :
        LET prod == shoppingListExtended[p]
            own == ListingsOfShop(prod, loc.stageB[i].id)
        IN  Len(own) >= 2 =>
              /\ prod.productName \in DOMAIN loc.stageB[i].products
              /\ \A j \in DOMAIN own :
                   loc.stageB[i].products[prod.productName].price <= own[j].price

====
